---- MODULE Spec2Model ----
(***************************************************************************)
(* A model of the two cores of the C++ interoperation layer:               *)
(*   - the Type Bridge, CXXInterface (src/src/ffi/CXXInterface.h): name    *)
(*     lookup, size queries, template and function instantiation and the   *)
(*     node builders, over the declarations of one translation unit;       *)
(*   - the IR Generator, MLIRGenerator (src/src/mlir/generator.cc): type   *)
(*     conversion and promotion, addressing and loads, constant strings.   *)
(* A failed assert() ends the process: the model then sets `aborted` (the  *)
(* bridge) or `fatal` (the generator) and no further call is made.         *)
(***************************************************************************)
EXTENDS Integers, Sequences, FiniteSets, TLC

(***************************************************************************)
(* Bounds of the model.                                                    *)
(***************************************************************************)
\* Declarations of the user's header in a session of size queries and
\* instantiations.
MaxHeaderDecls == 2
\* Specializations instantiated in a session of size queries and instantiations.
MaxNodes == 2
\* Declarations of the user's header in a session of all the AST operations,
\* and in a session of the function builders.
MaxSessionDecls == 1
\* Nodes synthesized in a session of all the AST operations.
MaxSessionNodes == 2
\* Declarations of the user's header in a session of lookups.
MaxLookupDecls == 3
\* Specializations instantiated in a session of lookups.
MaxLookupNodes == 1
\* Nodes synthesized in a session of the function builders.
MaxFuncNodes == 3
\* Arguments of the block a session of conversions starts from.
NumOperands == 2
\* Operations inserted in a session of conversions.
MaxConvOps == 2
\* Operations after which a session of memory accesses makes no further call.
MaxMemOps == 3
\* Constant strings generated in one process run.
MaxStrings == 12
\* Operations a session of arithmetic may hold before its last call.
MaxArithOps == 2
\* Operations a session of loads and stores may hold before its last call.
MaxAccessOps == 3
\* Functions a session of declarations may create before its last call.
MaxFunctions == 3
\* Blocks a function may hold before a call adds one.
MaxBlocks == 2
\* Modules a constructed bridge may emit.
MaxEmits == 1
\* Header declarations and synthesized nodes in the life of a bridge.
MaxCtorDecls == 1
MaxCtorNodes == 1

\* Qualified names that are looked up, declared and synthesized.
Names == {"A", "B"}
\* Canonicalized template argument lists.
TemplateArgs == {<<"int">>, <<"double">>}

VARIABLES
  tuDecls,          \* the translation unit's declaration list, in order
  specializations,  \* the class templates' specialization sets, in creation order
  nextId,           \* identity of the next node allocated in the AST arena
  traverseInst,     \* whether the host's AST traversal visits the specializations
  handle,           \* the caller's CXXType variable, passed by reference
  paramLog,         \* the parameters createFunctionArgument returned, in call order
  ret,              \* what the last call returned
  aborted,          \* an assertion failed: the process is gone
  blockArgTys,           \* the types of the entry block's arguments
  ops,              \* the operations the builder has inserted, in order
  out,              \* the values the last call of the generator returned
  fatal,            \* an assertion of the generator failed
  incr,             \* the static counter of generateConstantString
  globals,          \* the module's global operations, in order
  autoNames,        \* the names the unnamed constant strings got, in call order
  funcs,            \* the functions created, in creation order
  insertionPoint,   \* the builder's insertion point: a function and its block
  funcOut,          \* the function the last call returned (0: none)
  pc,               \* how far the constructor of the bridge has come
  pchBuffer,        \* what generatePCH left: "none", "pch" or "failed"
  FS,               \* the files of the virtual file system
  ast,              \* CXXInterface::ast, the AST root ("nullptr": none)
  Clang,            \* the session: the AST and the consumer attached to it
  consumers,        \* the consumers the factory has made: the AST each received
  emits             \* the modules emitLLVM has returned

bridgeVars ==
  <<tuDecls, specializations, nextId, traverseInst, handle, paramLog, ret, aborted>>

genVars == <<blockArgTys, ops, out, fatal, incr, globals, autoNames>>

moduleVars == <<funcs, insertionPoint, funcOut>>

ctorVars == <<pc, pchBuffer, FS, ast, Clang, consumers, emits>>

vars == <<bridgeVars, genVars, moduleVars, ctorVars>>

(***************************************************************************)
(* CXXType, the type handle.                                               *)
(***************************************************************************)
\* decl 0 is the null pointer; width 0 is the unset size-and-alignment cache.
CXXType(kind, decl) ==
  [kind |-> kind, decl |-> decl, builtin |-> "none", width |-> 0]

CXXTypeBuiltin(b) ==
  [kind |-> "Builtin", decl |-> 0, builtin |-> b, width |-> 0]

InvalidType == CXXType("Invalid", 0)

BuiltinKinds == {"Int", "Double", "Char"}

(***************************************************************************)
(* The AST of the session.                                                 *)
(***************************************************************************)
\* A declaration of the translation unit.  `defined` says that the
\* declaration has a definition (getDefinition() is not null).
NamedDecl(id, kind, name, defined) ==
  [id |-> id, kind |-> kind, name |-> name, defined |-> defined,
   fnTy |-> <<>>, params |-> <<>>, body |-> 0]

\* What a header can declare under one of the qualified names.
HeaderChoices ==
  {[kind |-> "ClassTemplateDecl", defined |-> TRUE],
   [kind |-> "ClassTemplateDecl", defined |-> FALSE],
   [kind |-> "CXXRecordDecl", defined |-> TRUE],
   [kind |-> "CXXRecordDecl", defined |-> FALSE],
   [kind |-> "EnumDecl", defined |-> TRUE]}

\* The k-th declaration of the header is node 2k-1; a class template's
\* templated record is the node after it.
HeaderDecls(choices, names) ==
  [k \in 1..Len(choices) |->
     NamedDecl(2 * k - 1, choices[k].kind, names[k], choices[k].defined)]

SeqsUpTo(S, n) == UNION {[1..k -> S] : k \in 0..n}

FirstSynthId ==
  2 * Cardinality({i \in 1..Len(tuDecls) : tuDecls[i].kind # "FunctionDecl"}) + 1

\* Nodes synthesized so far.
Allocated == nextId - FirstSynthId

(***************************************************************************)
(* getType: the three matchers and the priority among what they found.     *)
(***************************************************************************)
Node(cls, name, id, def) == [cls |-> cls, name |-> name, id |-> id, def |-> def]

SpecNodes(tmpl) ==
  LET Sel(s) == s.tmpl = tmpl.id
      S == SelectSeq(specializations, Sel)
  IN [k \in 1..Len(S) |->
        Node("CXXRecordDecl", tmpl.name, S[k].id,
             IF S[k].defined THEN S[k].id ELSE 0)]

\* The nodes one declaration contributes to the traversal, in visiting order.
DeclNodes(d) ==
  IF d.kind = "ClassTemplateDecl"
  THEN <<Node("ClassTemplateDecl", d.name, d.id, d.id),
         Node("CXXRecordDecl", d.name, d.id + 1,
              IF d.defined THEN d.id + 1 ELSE 0)>>
       \o (IF traverseInst THEN SpecNodes(d) ELSE <<>>)
  ELSE <<Node(d.kind, d.name, d.id, IF d.defined THEN d.id ELSE 0)>>

RECURSIVE Flatten(_)
Flatten(ds) ==
  IF ds = <<>> THEN <<>> ELSE DeclNodes(Head(ds)) \o Flatten(Tail(ds))

\* finder.matchAST(*ast): every node of the AST, in traversal order.
matchAST == Flatten(tuDecls)

\* LastMatch with matchers that match a declaration of any kind by its name.
LastMatchByName(nodes, cls, name, needDef) ==
  LET S == {i \in 1..Len(nodes) :
              /\ nodes[i].name = name
              /\ (needDef => nodes[i].def # 0)}
  IN IF S = {} THEN 0
     ELSE LET i == CHOOSE i \in S : \A j \in S : j <= i
          IN IF needDef THEN nodes[i].def ELSE nodes[i].id

\* A handler runs on each node its matcher matches and overwrites the
\* variable it captured: the last match is what remains.  0 is nullptr.
LastMatch(nodes, cls, name, needDef) ==
  LET S == {i \in 1..Len(nodes) :
              /\ nodes[i].cls = cls
              /\ nodes[i].name = name
              /\ (needDef => nodes[i].def # 0)}
  IN IF S = {} THEN 0
     ELSE LET i == CHOOSE i \in S : \A j \in S : j <= i
          IN IF needDef THEN nodes[i].def ELSE nodes[i].id

foundClass(name) == LastMatch(matchAST, "CXXRecordDecl", name, TRUE)
foundTemplateClass(name) == LastMatch(matchAST, "ClassTemplateDecl", name, FALSE)
foundEnum(name) == LastMatch(matchAST, "EnumDecl", name, FALSE)

\* getType with the class checked before the class template.
getTypeClassFirst(name) ==
  IF foundClass(name) # 0
  THEN CXXType("Class", foundClass(name))
  ELSE IF foundTemplateClass(name) # 0
  THEN CXXType("TemplateClass", foundTemplateClass(name))
  ELSE IF foundEnum(name) # 0
  THEN CXXType("Enum", foundEnum(name))
  ELSE InvalidType

getType(name) ==
  IF foundTemplateClass(name) # 0
  THEN CXXType("TemplateClass", foundTemplateClass(name))
  ELSE IF foundClass(name) # 0
  THEN CXXType("Class", foundClass(name))
  ELSE IF foundEnum(name) # 0
  THEN CXXType("Enum", foundEnum(name))
  ELSE InvalidType

(***************************************************************************)
(* Qualified types and their sizes.                                        *)
(***************************************************************************)
QualType(tag, decl, builtin) == [tag |-> tag, decl |-> decl, builtin |-> builtin]

\* QualType{}: the null type.
NullQualType == QualType("null", 0, "none")

typeForBuiltin(b) == QualType("builtin", 0, b)

getQualType(ty) ==
  CASE ty.kind \in {"Invalid", "TemplateClass"} -> NullQualType
    [] ty.kind \in {"SpecializedTemplateClass", "Class"} ->
         QualType("record", ty.decl, "none")
    [] ty.kind = "Enum" -> QualType("enum", ty.decl, "none")
    [] ty.kind = "Builtin" -> typeForBuiltin(ty.builtin)

\* ast->getTypeInfo(ty).Width, in bits, of a type that is not null: the
\* platform's table for the builtin kinds, the layout of the two-int class
\* and of an int-sized enum for the declarations.
TypeInfoWidth(qt) ==
  CASE qt.tag = "builtin" /\ qt.builtin = "Char" -> 8
    [] qt.tag = "builtin" /\ qt.builtin = "Int" -> 32
    [] qt.tag = "builtin" /\ qt.builtin = "Double" -> 64
    [] qt.tag = "enum" -> 32
    [] qt.tag = "record" -> 64

\* What reading the type information of the null type can leave in the
\* cache when it does not crash.
GarbageWidths == {0, 32}

(***************************************************************************)
(* The operations of the bridge.                                           *)
(***************************************************************************)
\* A returned CXXType, or a returned size or node (0: none).
Returned(h, n) == [h |-> h, n |-> n]

NoReturn == Returned(InvalidType, 0)

\* A failed assertion: the call does not return.
Abort ==
  /\ aborted' = TRUE
  /\ ret' = Returned(InvalidType, 0)

DeclIndex(id) == CHOOSE i \in 1..Len(tuDecls) : tuDecls[i].id = id

\* The caller looks a name up and keeps the handle.
GetType(name) ==
  /\ ~aborted
  /\ handle' = getType(name)
  /\ ret' = Returned(getType(name), 0)
  /\ UNCHANGED <<tuDecls, specializations, nextId, traverseInst, paramLog, aborted>>

\* The caller makes a handle of a builtin kind (CXXType::getInt() and so on).
GetBuiltin(b) ==
  /\ ~aborted
  /\ handle' = CXXTypeBuiltin(b)
  /\ ret' = Returned(CXXTypeBuiltin(b), 0)
  /\ UNCHANGED <<tuDecls, specializations, nextId, traverseInst, paramLog, aborted>>

getTypeSizeCached ==
  /\ handle.width # 0
  /\ ret' = Returned(handle, handle.width \div 8)
  /\ UNCHANGED <<handle, aborted>>

getTypeSizeQuery ==
  /\ handle.width = 0
  /\ getQualType(handle) # NullQualType
  /\ handle' = [handle EXCEPT !.width = TypeInfoWidth(getQualType(handle))]
  /\ ret' = Returned(handle', handle'.width \div 8)
  /\ UNCHANGED aborted

\* getTypeInfo on the null type dereferences a null pointer: the call
\* crashes, or it goes on with whatever it read and caches that.
getTypeSizeNull ==
  /\ handle.width = 0
  /\ getQualType(handle) = NullQualType
  /\ \/ Abort /\ UNCHANGED handle
     \/ \E w \in GarbageWidths :
          /\ handle' = [handle EXCEPT !.width = w]
          /\ ret' = Returned(handle', w \div 8)
          /\ UNCHANGED aborted

GetTypeSize ==
  /\ ~aborted
  /\ IF handle.kind = "Invalid"
     THEN Abort /\ UNCHANGED handle
     ELSE getTypeSizeCached \/ getTypeSizeQuery \/ getTypeSizeNull
  /\ UNCHANGED <<tuDecls, specializations, nextId, traverseInst, paramLog>>

\* findSpecialization that finds nothing.
findSpecializationMiss(tmpl, args) == 0

\* ClassTemplate->findSpecialization(args, InsertPos): the position of the
\* specialization of `tmpl` for `args` in the specialization set, 0 if none.
findSpecialization(tmpl, args) ==
  LET S == {i \in 1..Len(specializations) :
              /\ specializations[i].tmpl = tmpl
              /\ specializations[i].args = args}
  IN IF S = {} THEN 0 ELSE CHOOSE i \in S : TRUE

Specialization(id, tmpl, args, defined) ==
  [id |-> id, tmpl |-> tmpl, args |-> args, defined |-> defined]

\* The specialization set after Decl, at position `at` (0: not in the set
\* yet), is added with AddSpecialization and, with `define`, instantiated.
withSpecialization(at, Decl, define) ==
  LET D == [Decl EXCEPT !.defined = Decl.defined \/ define]
  IN IF at = 0 THEN Append(specializations, D)
     ELSE [specializations EXCEPT ![at] = D]

InstantiateClassTemplate(args, assign) ==
  /\ ~aborted
  /\ IF handle.kind # "TemplateClass"
     THEN /\ ret' = Returned(InvalidType, 0)
          /\ handle' = IF assign THEN InvalidType ELSE handle
          /\ UNCHANGED <<specializations, nextId, aborted>>
     ELSE LET ClassTemplate == handle.decl
              at == findSpecialization(ClassTemplate, args)
              Decl == IF at = 0
                      THEN Specialization(nextId, ClassTemplate, args, FALSE)
                      ELSE specializations[at]
              canDefine == tuDecls[DeclIndex(ClassTemplate)].defined
              Def == IF Decl.defined \/ canDefine THEN Decl.id ELSE 0
              result == CXXType("SpecializedTemplateClass", Def)
          IN /\ specializations' = withSpecialization(at, Decl, canDefine)
             /\ nextId' = IF at = 0 THEN nextId + 1 ELSE nextId
             /\ \/ /\ Def # 0
                   /\ ret' = Returned(result, 0)
                   /\ handle' = IF assign THEN result ELSE handle
                   /\ UNCHANGED aborted
                \* No definition to instantiate: cast<> of the null
                \* definition asserts, or hands the null pointer on.
                \/ /\ Def = 0
                   /\ Abort
                   /\ UNCHANGED handle
                \/ /\ Def = 0
                   /\ ret' = Returned(result, 0)
                   /\ handle' = IF assign THEN result ELSE handle
                   /\ UNCHANGED aborted
  /\ UNCHANGED <<tuDecls, traverseInst, paramLog>>

\* ast->getFunctionType(retTy, argTys, EPI).
FunctionType(retTy, argTys) == [ret |-> retTy, args |-> argTys]

\* The parameter type lists instantiateFunction is called with.
ParamTypeLists == {<<>>, <<handle>>}

FunctionDeclIndexes == {i \in 1..Len(tuDecls) : tuDecls[i].kind = "FunctionDecl"}

\* addDecl that keeps the function already declared under the name.
addDeclIfNotYetDone(func) ==
  IF \E i \in FunctionDeclIndexes : tuDecls[i].name = func.name
  THEN tuDecls
  ELSE Append(tuDecls, func)

\* DC->addDecl(func): the declaration goes to the end of the list.
addDecl(func) == Append(tuDecls, func)

InstantiateFunction(name, args, retType) ==
  LET argTys == [k \in 1..Len(args) |-> getQualType(args[k])]
      retTy == getQualType(retType)
      fnTy == FunctionType(retTy, argTys)
      func == [NamedDecl(nextId, "FunctionDecl", name, FALSE) EXCEPT !.fnTy = fnTy]
      nullTy == retTy = NullQualType \/ \E k \in 1..Len(args) : argTys[k] = NullQualType
  IN /\ ~aborted
     /\ \/ /\ tuDecls' = addDecl(func)
           /\ nextId' = nextId + 1
           /\ ret' = Returned(InvalidType, nextId)
           /\ UNCHANGED aborted
        \* A function type over the null type: the host may crash on it.
        \/ /\ nullTy
           /\ Abort
           /\ UNCHANGED <<tuDecls, nextId>>
     /\ UNCHANGED <<specializations, traverseInst, handle, paramLog>>

\* func->setParams({arg}): the parameter list becomes the list given.
setParams(func, NewParamInfo) == [func EXCEPT !.params = NewParamInfo]

CreateFunctionArgument(f) ==
  /\ ~aborted
  /\ f \in FunctionDeclIndexes
  /\ tuDecls' = [tuDecls EXCEPT ![f] = setParams(tuDecls[f], <<nextId>>)]
  /\ nextId' = nextId + 1
  /\ paramLog' = Append(paramLog, [func |-> tuDecls[f].id, arg |-> nextId])
  /\ ret' = Returned(InvalidType, nextId)
  /\ UNCHANGED <<specializations, traverseInst, handle, aborted>>

CreateIntegerLiteral ==
  /\ ~aborted
  /\ nextId' = nextId + 1
  /\ ret' = Returned(InvalidType, nextId)
  /\ UNCHANGED <<tuDecls, specializations, traverseInst, handle, paramLog, aborted>>

\* func->setBody(retStmt): the body is the new statement; the old one
\* stays in the arena, referenced by nothing.
setBody(func, stmt) == [func EXCEPT !.body = stmt]

CreateReturn(f) ==
  /\ ~aborted
  /\ f \in FunctionDeclIndexes
  /\ tuDecls' = [tuDecls EXCEPT ![f] = setBody(tuDecls[f], nextId)]
  /\ nextId' = nextId + 1
  /\ ret' = Returned(InvalidType, nextId)
  /\ UNCHANGED <<specializations, traverseInst, handle, paramLog, aborted>>

(***************************************************************************)
(* The IR generator: types and values.                                     *)
(***************************************************************************)
\* A type: an integer or a floating type of a bit width, the struct of two
\* 32-bit integers, an array of i8, or a pointer to one of these (edom and
\* ewidth are the pointee's).
Type(dom, width, edom, ewidth) ==
  [dom |-> dom, width |-> width, edom |-> edom, ewidth |-> ewidth]

\* Type(): no type given.
NoType == Type("none", 0, "none", 0)

IntegerType(w) == Type("int", w, "none", 0)
FloatType(w) == Type("float", w, "none", 0)
StructType == Type("struct", 0, "none", 0)
ArrayType(n) == Type("array", n, "none", 0)
PointerType(elem) == Type("ptr", 0, elem.dom, elem.width)

IntWidths == {8, 16, 32, 64}
FloatWidths == {16, 32, 64}

ScalarTypes ==
  {IntegerType(w) : w \in IntWidths} \cup {FloatType(w) : w \in FloatWidths}

\* The types of the values and of the expected types of a session of
\* memory accesses.
MemTypes ==
  {IntegerType(32), PointerType(IntegerType(32)), PointerType(StructType)}

ExpectedTypes ==
  {NoType, IntegerType(32), FloatType(64), PointerType(IntegerType(32)),
   PointerType(StructType)}

Offsets == {0, 1}

\* The values over the operations o: the block arguments, then the results
\* of the operations.
ValuesOf(o) == 1..(Len(blockArgTys) + Len(o))


\* val.getType().
TypeOf(o, val) ==
  IF val <= Len(blockArgTys) THEN blockArgTys[val] ELSE o[val - Len(blockArgTys)].ty

\* val.getDefiningOp(): the name of the operation, "null" for a block argument.
DefiningOp(o, val) ==
  IF val <= Len(blockArgTys) THEN "null" ELSE o[val - Len(blockArgTys)].name

\* The values there are to pass: a StoreOp has no result.
Values == {v \in ValuesOf(ops) : DefiningOp(ops, v) # "StoreOp"}

\* What a function of the generator leaves: the operations, the value it
\* returns (0: none) and whether an assertion failed.
Result(o, val) == [ops |-> o, val |-> val, fatal |-> FALSE]
Fatal(o) == [ops |-> o, val |-> 0, fatal |-> TRUE]

\* builder.create<Op>(loc, ty, operands): the operation is inserted after
\* the others and its result is the value returned.
create(o, name, ty, operands, attr) ==
  Result(Append(o, [name |-> name, ty |-> ty, operands |-> operands, attr |-> attr]),
         Len(blockArgTys) + Len(o) + 1)

isIntOrFloat(ty) == ty.dom \in {"int", "float"}

(***************************************************************************)
(* typeConversion and typePromotion.                                       *)
(***************************************************************************)
typeConversion(o, val, ty) ==
  LET valTy == TypeOf(o, val)
      valSize == valTy.width
      tySize == ty.width
  IN \* getIntOrFloatBitWidth asserts that the type is an integer or a float
     IF ~isIntOrFloat(valTy) \/ ~isIntOrFloat(ty) THEN Fatal(o)
     ELSE IF valSize = tySize THEN Result(o, val)
     ELSE IF valTy.dom = "int" /\ ty.dom = "int"
     THEN IF valSize < tySize
          THEN create(o, "SignExtendIOp", ty, <<val>>, 0)
          ELSE create(o, "TruncateIOp", ty, <<val>>, 0)
     ELSE IF valTy.dom = "float" /\ ty.dom = "float"
     THEN IF valSize < tySize
          THEN create(o, "FPExtOp", ty, <<val>>, 0)
          ELSE create(o, "FPTruncOp", ty, <<val>>, 0)
     ELSE Fatal(o)

\* typePromotion that converts the left operand whichever is narrower.
typePromotionLeft(o, lhs, rhs) ==
  LET c == typeConversion(o, lhs, TypeOf(o, rhs))
  IN IF TypeOf(o, lhs) = TypeOf(o, rhs)
     THEN [ops |-> o, vals |-> <<lhs, rhs>>, fatal |-> FALSE]
     ELSE [ops |-> c.ops, vals |-> IF c.fatal THEN <<>> ELSE <<c.val, rhs>>,
           fatal |-> c.fatal]

\* What typePromotion leaves: the operations, the pair returned, and whether
\* an assertion failed.
typePromotion(o, lhs, rhs) ==
  LET lhsType == TypeOf(o, lhs)
      rhsType == TypeOf(o, rhs)
  IN IF lhsType = rhsType THEN [ops |-> o, vals |-> <<lhs, rhs>>, fatal |-> FALSE]
     ELSE IF ~isIntOrFloat(lhsType) \/ ~isIntOrFloat(rhsType)
     THEN [ops |-> o, vals |-> <<>>, fatal |-> TRUE]
     ELSE IF lhsType.width < rhsType.width
     THEN LET c == typeConversion(o, lhs, rhsType)
          IN [ops |-> c.ops, vals |-> IF c.fatal THEN <<>> ELSE <<c.val, rhs>>,
              fatal |-> c.fatal]
     ELSE LET c == typeConversion(o, rhs, lhsType)
          IN [ops |-> c.ops, vals |-> IF c.fatal THEN <<>> ELSE <<lhs, c.val>>,
              fatal |-> c.fatal]

TypeConversion(val, ty) ==
  LET c == typeConversion(ops, val, ty)
  IN /\ ~fatal
     /\ ops' = c.ops
     /\ out' = IF c.fatal THEN <<>> ELSE <<c.val>>
     /\ fatal' = c.fatal
     /\ UNCHANGED <<blockArgTys, incr, globals, autoNames>>

TypePromotion(lhs, rhs) ==
  LET p == typePromotion(ops, lhs, rhs)
  IN /\ ~fatal
     /\ ops' = p.ops
     /\ out' = p.vals
     /\ fatal' = p.fatal
     /\ UNCHANGED <<blockArgTys, incr, globals, autoNames>>

(***************************************************************************)
(* Constants, addresses and loads.                                         *)
(***************************************************************************)
isPointer(o, val) == TypeOf(o, val).dom = "ptr"

getElementType(o, val) ==
  Type(TypeOf(o, val).edom, TypeOf(o, val).ewidth, "none", 0)

isStructPointer(o, val) == isPointer(o, val) /\ getElementType(o, val) = StructType

\* The type of the field at `offset` of the struct of two 32-bit integers.
getFieldType(structTy, offset) == <<IntegerType(32), IntegerType(32)>>[offset + 1]

generateConstant(o, ty, val) ==
  IF ty.dom = "int" THEN create(o, "ConstantIntOp", ty, <<>>, val)
  ELSE IF ty.dom = "float" THEN create(o, "ConstantFloatOp", ty, <<>>, val)
  ELSE Fatal(o)

generateZero(o, ty) == generateConstant(o, ty, 0)

generateAlloca(o, ty) ==
  LET len == generateConstant(o, IntegerType(32), 1)
  IN create(len.ops, "AllocaOp", PointerType(ty), <<len.val>>, 0)

generateGEP(o, addr, offset) ==
  LET zero == IF isStructPointer(o, addr)
              THEN generateZero(o, IntegerType(32)) ELSE Result(o, 0)
      len == generateConstant(zero.ops, IntegerType(32), offset)
      offsetList == (IF zero.val # 0 THEN <<zero.val>> ELSE <<>>) \o <<len.val>>
      retTy == IF getElementType(o, addr) = StructType
               THEN getFieldType(StructType, offset)
               ELSE TypeOf(o, addr)
  IN \* getElementType asserts that the value is a pointer
     IF ~isPointer(o, addr) THEN Fatal(len.ops)
     ELSE create(len.ops, "GEPOp", retTy, <<addr>> \o offsetList, 0)

\* builder.create<LLVM::LoadOp>(loc, addr): a value of the type addr points
\* to (of the field's type, for the address of a field).
createLoad(o, addr) ==
  create(o, "LoadOp",
         IF isPointer(o, addr) THEN getElementType(o, addr) ELSE TypeOf(o, addr),
         <<addr>>, 0)

\* The outcomes of generateLoad.  A block argument has no defining
\* operation and isa<> is applied to the null pointer: the call crashes, or
\* goes on along either branch.
generateLoad(o, addr, offset) ==
  LET gep == generateGEP(o, addr, offset)
      computed == IF gep.fatal THEN gep ELSE createLoad(gep.ops, gep.val)
      asIs == IF offset = 0 THEN createLoad(o, addr) ELSE Fatal(o)
  IN IF DefiningOp(o, addr) = "null" THEN {Fatal(o), computed, asIs}
     ELSE IF DefiningOp(o, addr) # "GEPOp" THEN {computed}
     ELSE {asIs}

\* The outcomes of generateStore, which returns no value (0).  The address
\* is chosen as in generateLoad.
generateStore(o, addr, val, offset) ==
  LET store(g, a) == Result(create(g, "StoreOp", NoType, <<val, a>>, 0).ops, 0)
      gep == generateGEP(o, addr, offset)
      computed == IF gep.fatal THEN gep ELSE store(gep.ops, gep.val)
      asIs == IF offset = 0 THEN store(o, addr) ELSE Fatal(o)
  IN IF DefiningOp(o, addr) = "null" THEN {Fatal(o), computed, asIs}
     ELSE IF DefiningOp(o, addr) # "GEPOp" THEN {computed}
     ELSE {asIs}

\* generateAutoLoad that loads whatever type is expected.
generateAutoLoadAlways(o, addr, ty, offset) ==
  IF ~isPointer(o, addr) THEN {Result(o, addr)}
  ELSE IF ty # NoType /\ ty.dom # "ptr" /\ getElementType(o, addr) # ty THEN {Fatal(o)}
  ELSE generateLoad(o, addr, offset)

\* The outcomes of generateAutoLoad.
generateAutoLoad(o, addr, ty, offset) ==
  IF ~isPointer(o, addr) THEN {Result(o, addr)}
  ELSE IF ty # NoType /\ ty.dom = "ptr" THEN {Result(o, addr)}
  ELSE IF ty # NoType /\ getElementType(o, addr) # ty THEN {Fatal(o)}
  ELSE generateLoad(o, addr, offset)

\* The caller takes what a function of the generator leaves.
Leaves(r) ==
  /\ ops' = r.ops
  /\ out' = IF r.fatal THEN <<>> ELSE <<r.val>>
  /\ fatal' = r.fatal

GenerateAlloca(ty) ==
  /\ ~fatal
  /\ Leaves(generateAlloca(ops, ty))
  /\ UNCHANGED <<blockArgTys, incr, globals, autoNames>>

GenerateGEP(addr, offset) ==
  /\ ~fatal
  /\ Leaves(generateGEP(ops, addr, offset))
  /\ UNCHANGED <<blockArgTys, incr, globals, autoNames>>

GenerateLoad(addr, offset) ==
  /\ ~fatal
  /\ \E r \in generateLoad(ops, addr, offset) : Leaves(r)
  /\ UNCHANGED <<blockArgTys, incr, globals, autoNames>>

GenerateStore(addr, val, offset) ==
  /\ ~fatal
  /\ \E r \in generateStore(ops, addr, val, offset) :
       /\ ops' = r.ops
       /\ out' = <<>>
       /\ fatal' = r.fatal
  /\ UNCHANGED <<blockArgTys, incr, globals, autoNames>>

GenerateAutoLoad(addr, ty, offset) ==
  /\ ~fatal
  /\ \E r \in generateAutoLoad(ops, addr, ty, offset) : Leaves(r)
  /\ UNCHANGED <<blockArgTys, incr, globals, autoNames>>

(***************************************************************************)
(* Arithmetic.                                                             *)
(***************************************************************************)
\* The operand of an arithmetic operation: a pointer is loaded first
\* (generateLoad(loc, val), the offset defaulted to 0).
loadOperand(o, val) ==
  IF isPointer(o, val) THEN generateLoad(o, val, 0) ELSE {Result(o, val)}

\* The operation generateArithmetic inserts for two promoted operands.  The
\* operation is created before StringSwitch looks at the name, and the
\* result is null, and the assertion fails, for any name but "+".
arithmeticOp(o, opName, vals) ==
  LET retTy == TypeOf(o, vals[1])
      isF32orF64 == retTy.dom = "float" /\ retTy.width \in {32, 64}
  IN IF isF32orF64
     THEN IF opName = "+" THEN create(o, "AddFOp", retTy, vals, 0)
          ELSE Fatal(create(o, "AddFOp", retTy, vals, 0).ops)
     ELSE IF retTy.dom # "int" THEN Fatal(o)
     ELSE IF opName = "+" THEN create(o, "AddIOp", retTy, vals, 0)
          ELSE Fatal(create(o, "AddIOp", retTy, vals, 0).ops)

\* The outcomes of generateArithmetic.
generateArithmetic(o, opName, lhs, rhs) ==
  UNION {
    IF l.fatal THEN {Fatal(l.ops)}
    ELSE UNION {
      IF r.fatal THEN {Fatal(r.ops)}
      ELSE LET p == typePromotion(r.ops, l.val, r.val)
           IN IF p.fatal THEN {Fatal(p.ops)}
              ELSE {arithmeticOp(p.ops, opName, p.vals)}
      : r \in loadOperand(l.ops, rhs)}
    : l \in loadOperand(o, lhs)}

GenerateArithmetic(opName, lhs, rhs) ==
  /\ ~fatal
  /\ \E r \in generateArithmetic(ops, opName, lhs, rhs) : Leaves(r)
  /\ UNCHANGED <<blockArgTys, incr, globals, autoNames>>

(***************************************************************************)
(* Constant strings.                                                       *)
(***************************************************************************)
Digit(d) ==
  CASE d = 0 -> "0" [] d = 1 -> "1" [] d = 2 -> "2" [] d = 3 -> "3" [] d = 4 -> "4"
    [] d = 5 -> "5" [] d = 6 -> "6" [] d = 7 -> "7" [] d = 8 -> "8" [] d = 9 -> "9"

\* std::to_string of an unsigned number: its decimal digits.
RECURSIVE to_string(_)
to_string(n) ==
  IF n < 10 THEN Digit(n) ELSE to_string(n \div 10) \o Digit(n % 10)

\* incr++ on every call.
incrAfterAnyCall(name) == incr + 1

\* The static counter after a call: incr++ is evaluated for an empty name only.
incrAfter(name) == IF name = "" THEN incr + 1 ELSE incr

nameStr(name) == IF name = "" THEN "_string" \o to_string(incr) ELSE name

\* The texts and the names generateConstantString is called with.
Texts == {<<"h", "i">>}
StringNames == {"", "s", "_string0"}

GenerateConstantString(str, name) ==
  LET strTy == ArrayType(Len(str))
      global == [name |-> nameStr(name), ty |-> strTy, value |-> str,
                 constant |-> TRUE, linkage |-> "Private"]
      addr == create(ops, "AddressOfOp", PointerType(strTy), <<>>, Len(globals) + 1)
  IN /\ ~fatal
     /\ incr' = incrAfter(name)
     /\ globals' = Append(globals, global)
     /\ autoNames' = IF name = "" THEN Append(autoNames, nameStr(name)) ELSE autoNames
     /\ Leaves(addr)
     /\ UNCHANGED blockArgTys

(***************************************************************************)
(* Functions of the module.                                                *)
(***************************************************************************)
\* FuncOp::create(loc, name, funcTy): a function of no block that no module
\* holds.
FuncOp(name, types, retTy) ==
  [name |-> name, types |-> types, retTy |-> retTy, blocks |-> 0,
   inModule |-> FALSE]

\* module->lookupSymbol<FuncOp>(name): the function of that name the module
\* holds, 0 if it holds none.
lookupSymbol(name) ==
  LET S == {f \in 1..Len(funcs) : funcs[f].inModule /\ funcs[f].name = name}
  IN IF S = {} THEN 0 ELSE CHOOSE f \in S : \A g \in S : f <= g

FuncNames == {"f", "g"}
Signatures == {<<>>, <<IntegerType(32)>>}

GenerateProto(name, types, retTy) ==
  /\ ~fatal
  /\ funcs' = Append(funcs, FuncOp(name, types, retTy))
  /\ funcOut' = Len(funcs) + 1
  /\ UNCHANGED <<insertionPoint, genVars>>

\* func.addEntryBlock() and builder.setInsertionPointToStart(&entryBlock).
\* The host asserts that the function has no block yet; a build without
\* assertions adds the block after the others.
addEntryBlock(fs, f) ==
  LET added == [fs |-> [fs EXCEPT ![f].blocks = @ + 1], fatal |-> FALSE]
  IN IF fs[f].blocks = 0 THEN {added}
     ELSE {added, [fs |-> fs, fatal |-> TRUE]}

GenerateEmptyFunction(name, types, retTy) ==
  LET found == lookupSymbol(name)
      fs == IF found = 0 THEN Append(funcs, FuncOp(name, types, retTy)) ELSE funcs
      func == IF found = 0 THEN Len(funcs) + 1 ELSE found
  IN /\ ~fatal
     /\ \E r \in addEntryBlock(fs, func) :
          /\ funcs' = r.fs
          /\ fatal' = r.fatal
          /\ funcOut' = IF r.fatal THEN 0 ELSE func
          /\ insertionPoint' =
               IF r.fatal THEN insertionPoint
               ELSE [func |-> func, block |-> r.fs[func].blocks]
     /\ UNCHANGED <<blockArgTys, ops, out, incr, globals, autoNames>>

\* The caller adds a function it was returned to the module, under a name
\* the module does not hold yet.
ModulePushBack(f) ==
  /\ ~fatal
  /\ ~funcs[f].inModule
  /\ lookupSymbol(funcs[f].name) = 0
  /\ funcs' = [funcs EXCEPT ![f].inModule = TRUE]
  /\ UNCHANGED <<insertionPoint, funcOut, genVars>>

(***************************************************************************)
(* The construction of the bridge, and emitLLVM.                           *)
(***************************************************************************)
\* The AST root the parse of the wrapping unit hands to the collector.
Ctx == "Ctx"

\* The compiler instance: the AST it refers to and the number of the
\* consumer attached to it (0: none).
Session(astRef, consumer) == [ast |-> astRef, consumer |-> consumer]

NoSession == Session("nullptr", 0)

\* No bridge is constructed.
Unconstructed ==
  /\ pc = "Uninitialized"
  /\ pchBuffer = "none"
  /\ FS = {}
  /\ ast = "nullptr"
  /\ Clang = NoSession
  /\ consumers = <<>>
  /\ emits = 0

\* The bridge after a construction in which both compilations succeeded:
\* the collector of the parse was consumer 1, and consumer 2 is attached.
Constructed ==
  /\ pc = "Ready"
  /\ pchBuffer = "pch"
  /\ FS = {"verona_interface.cc", "header.gch"}
  /\ ast = Ctx
  /\ Clang = Session(Ctx, 2)
  /\ consumers = <<Ctx, "nullptr">>
  /\ emits = 0

\* pchBuffer = generatePCH(headerFile, sourceLang): the result of
\* LocalClang.ExecuteAction is not looked at, and a buffer is returned
\* whether the action succeeded (ok) or not.
GeneratePCH(ok) ==
  /\ pc = "Uninitialized"
  /\ pchBuffer' = IF ok THEN "pch" ELSE "failed"
  /\ pc' = "PCHGenerated"
  /\ UNCHANGED <<FS, ast, Clang, consumers, emits, bridgeVars>>

\* The fake compile unit and the precompiled header are added to the file
\* system.
AssembleUnit ==
  /\ pc = "PCHGenerated"
  /\ FS' = FS \cup {"verona_interface.cc", "header.gch"}
  /\ pc' = "UnitAssembled"
  /\ UNCHANGED <<pchBuffer, ast, Clang, consumers, emits, bridgeVars>>

\* Collector::HandleTranslationUnit: interface->ast = &Ctx.
HandleTranslationUnit(Context) == Context

\* The compiler is created and executes the collecting action: a parse
\* that succeeds (ok) hands the AST of the header to a consumer of the
\* factory, and executing the action consumes the AST of the compiler.
ParseUnit(ok, choices) ==
  /\ pc = "UnitAssembled"
  /\ consumers' = Append(consumers, IF ok THEN Ctx ELSE "nullptr")
  /\ IF ok
     THEN /\ ast' = HandleTranslationUnit(Ctx)
          /\ tuDecls' = HeaderDecls(choices, [k \in 1..Len(choices) |-> "A"])
          /\ nextId' = 2 * Len(choices) + 1
     ELSE UNCHANGED <<ast, tuDecls, nextId>>
  /\ Clang' = NoSession
  /\ pc' = "Parsed"
  /\ UNCHANGED <<pchBuffer, FS, emits, specializations, traverseInst, handle,
                 paramLog, ret, aborted>>

\* The constructor that returns without attaching the AST again.
leftConsumed(consumer) == Clang

\* Clang->setASTMachinery(factory.newASTConsumer(), ast).
setASTMachinery(consumer) == Session(ast, consumer)

\* The constructor attaches a new consumer and the AST and returns.
Reattach ==
  /\ pc = "Parsed"
  /\ consumers' = Append(consumers, "nullptr")
  /\ Clang' = setASTMachinery(Len(consumers) + 1)
  /\ pc' = "Ready"
  /\ UNCHANGED <<pchBuffer, FS, ast, emits, bridgeVars>>

\* The caller holds a bridge whose AST was collected.
Usable == pc = "Ready" /\ ast # "nullptr"

\* emitLLVM passes ast and the unit's name to the compiler, which returns a
\* module (1) or none (0).
EmitLLVM(ok) ==
  /\ Usable
  /\ ~aborted
  /\ emits' = IF ok THEN emits + 1 ELSE emits
  /\ ret' = Returned(InvalidType, IF ok THEN 1 ELSE 0)
  /\ UNCHANGED <<pc, pchBuffer, FS, ast, Clang, consumers, tuDecls,
                 specializations, nextId, traverseInst, handle, paramLog, aborted>>

(***************************************************************************)
(* The sessions: any header within the bounds, then any calls.             *)
(***************************************************************************)
\* No function is created and the builder points nowhere.
NoInsertionPoint == [func |-> 0, block |-> 0]

ModuleIdle ==
  /\ funcs = <<>>
  /\ insertionPoint = NoInsertionPoint
  /\ funcOut = 0

\* No generator runs beside the bridge, and no bridge beside the generator.
GenIdle ==
  /\ blockArgTys = <<>>
  /\ ops = <<>>
  /\ out = <<>>
  /\ fatal = FALSE
  /\ incr = 0
  /\ globals = <<>>
  /\ autoNames = <<>>
  /\ ModuleIdle

BridgeIdle ==
  /\ tuDecls = <<>>
  /\ specializations = <<>>
  /\ nextId = 1
  /\ traverseInst = FALSE
  /\ handle = InvalidType
  /\ paramLog = <<>>
  /\ ret = NoReturn
  /\ aborted = FALSE
  /\ Unconstructed

InitHeader(n, names) ==
  /\ \E choices \in SeqsUpTo(HeaderChoices, n) :
       \E nm \in [1..Len(choices) -> names] :
         /\ tuDecls = HeaderDecls(choices, nm)
         /\ nextId = 2 * Len(choices) + 1
  /\ specializations = <<>>
  /\ traverseInst \in BOOLEAN
  /\ handle = InvalidType
  /\ paramLog = <<>>
  /\ ret = NoReturn
  /\ aborted = FALSE
  /\ Constructed
  /\ GenIdle

\* The call allocates no node, or fewer than max nodes are allocated.
Within(max, allocates) == allocates => Allocated < max

Instantiates(args) ==
  handle.kind = "TemplateClass" /\ findSpecialization(handle.decl, args) = 0

\* A session of lookups, size queries and template instantiations.
InitBridge == InitHeader(MaxHeaderDecls, {"A"})

NextBridge ==
  \/ \E name \in Names : GetType(name)
  \/ \E b \in BuiltinKinds : GetBuiltin(b)
  \/ GetTypeSize
  \/ \E args \in TemplateArgs, assign \in BOOLEAN :
       Within(MaxNodes, Instantiates(args)) /\ InstantiateClassTemplate(args, assign)

SpecBridge == InitBridge /\ [][NextBridge /\ UNCHANGED <<genVars, moduleVars, ctorVars>>]_vars

\* A session of lookups between the operations that add to the AST.
InitSession == InitHeader(MaxSessionDecls, {"A"})

NextSession ==
  \/ \E name \in Names : GetType(name)
  \/ \E args \in TemplateArgs :
       Within(MaxSessionNodes, Instantiates(args)) /\ InstantiateClassTemplate(args, FALSE)
  \/ \E name \in Names, args \in ParamTypeLists :
       Within(MaxSessionNodes, TRUE) /\ InstantiateFunction(name, args, CXXTypeBuiltin("Int"))
  \/ \E f \in 1..Len(tuDecls) : Within(MaxSessionNodes, TRUE) /\ CreateFunctionArgument(f)
  \/ Within(MaxSessionNodes, TRUE) /\ CreateIntegerLiteral
  \/ \E f \in 1..Len(tuDecls) : Within(MaxSessionNodes, TRUE) /\ CreateReturn(f)

SpecSession == InitSession /\ [][NextSession /\ UNCHANGED <<genVars, moduleVars, ctorVars>>]_vars

\* A session of lookups, over the instantiations that add to what a lookup
\* traverses.
InitLookup == InitHeader(MaxLookupDecls, Names)

NextLookup ==
  \/ \E name \in Names : GetType(name)
  \/ \E args \in TemplateArgs :
       Within(MaxLookupNodes, Instantiates(args)) /\ InstantiateClassTemplate(args, FALSE)

SpecLookup == InitLookup /\ [][NextLookup /\ UNCHANGED <<genVars, moduleVars, ctorVars>>]_vars

\* A session of the function builders.
InitFunc == InitHeader(MaxSessionDecls, {"A"})

NextFunc ==
  \/ \E b \in {"Int"} : GetBuiltin(b)
  \/ \E name \in Names, args \in ParamTypeLists :
       Within(MaxFuncNodes, TRUE) /\ InstantiateFunction(name, args, CXXTypeBuiltin("Int"))
  \/ \E f \in 1..Len(tuDecls) : Within(MaxFuncNodes, TRUE) /\ CreateFunctionArgument(f)
  \/ Within(MaxFuncNodes, TRUE) /\ CreateIntegerLiteral
  \/ \E f \in 1..Len(tuDecls) : Within(MaxFuncNodes, TRUE) /\ CreateReturn(f)

SpecFunc == InitFunc /\ [][NextFunc /\ UNCHANGED <<genVars, moduleVars, ctorVars>>]_vars

\* A session of conversions: a block with arguments of any two scalar
\* types, then any conversions and promotions of its values.
InitConv ==
  /\ blockArgTys \in [1..NumOperands -> ScalarTypes]
  /\ ops = <<>>
  /\ out = <<>>
  /\ fatal = FALSE
  /\ incr = 0
  /\ globals = <<>>
  /\ autoNames = <<>>
  /\ ModuleIdle
  /\ BridgeIdle

NextConv ==
  \/ \E val \in Values, ty \in ScalarTypes :
       Len(ops) < MaxConvOps /\ TypeConversion(val, ty)
  \/ \E lhs \in Values, rhs \in Values :
       Len(ops) < MaxConvOps /\ TypePromotion(lhs, rhs)

SpecConv == InitConv /\ [][NextConv /\ UNCHANGED <<bridgeVars, moduleVars, ctorVars>>]_vars

\* A session of memory accesses: a block with arguments of any of the
\* types, then any allocations, address computations and automatic loads.
InitMem ==
  /\ blockArgTys \in [1..NumOperands -> MemTypes]
  /\ ops = <<>>
  /\ out = <<>>
  /\ fatal = FALSE
  /\ incr = 0
  /\ globals = <<>>
  /\ autoNames = <<>>
  /\ ModuleIdle
  /\ BridgeIdle

NextMem ==
  \/ \E ty \in {IntegerType(32), StructType} :
       Len(ops) < MaxMemOps /\ GenerateAlloca(ty)
  \/ \E addr \in Values, offset \in Offsets :
       Len(ops) < MaxMemOps /\ GenerateGEP(addr, offset)
  \/ \E addr \in Values, ty \in ExpectedTypes, offset \in Offsets :
       Len(ops) < MaxMemOps /\ GenerateAutoLoad(addr, ty, offset)

SpecMem == InitMem /\ [][NextMem /\ UNCHANGED <<bridgeVars, moduleVars, ctorVars>>]_vars

\* A process run of constant strings.
InitStr == GenIdle /\ BridgeIdle

NextStr ==
  \E str \in Texts, name \in StringNames :
    Len(globals) < MaxStrings /\ GenerateConstantString(str, name)

SpecStr == InitStr /\ [][NextStr /\ UNCHANGED <<bridgeVars, moduleVars, ctorVars>>]_vars

(***************************************************************************)
(* The claims about the bridge.                                            *)
(***************************************************************************)
\* The positions in the specialization set S of the specializations of
\* template tmpl for the argument list args.
SpecsFor(S, tmpl, args) ==
  {i \in 1..Len(S) : S[i].tmpl = tmpl /\ S[i].args = args}

\* Every entry of the specialization set stays where it is, with its
\* identity and its key, and a definition once made stays.
SpecializationsKept ==
  /\ Len(specializations') >= Len(specializations)
  /\ \A i \in 1..Len(specializations) :
       /\ specializations'[i].id = specializations[i].id
       /\ specializations'[i].tmpl = specializations[i].tmpl
       /\ specializations'[i].args = specializations[i].args
       /\ specializations[i].defined => specializations'[i].defined

\* A call of instantiateClassTemplate on the TemplateClass handle, with the
\* arguments args, that returns.
InstantiateReturns(args) ==
  /\ handle.kind = "TemplateClass"
  /\ \E assign \in BOOLEAN : InstantiateClassTemplate(args, assign)
  /\ ~aborted'

\* C1: instantiateClassTemplate is idempotent.  No call ever removes or
\* renumbers a specialization; a call for a template T and an argument list
\* A returns the one specialization the set holds for (T, A) (so two calls
\* return the identical declaration); and a call for a (T, A) that the set
\* already holds adds no specialization.
C1_InstantiateIdempotent ==
  [][/\ SpecializationsKept
     /\ \A args \in TemplateArgs :
          InstantiateReturns(args) =>
            LET before == SpecsFor(specializations, handle.decl, args)
                after == SpecsFor(specializations', handle.decl, args)
            IN /\ Cardinality(after) = 1
               /\ \A i \in after :
                    ret'.h.decl = IF specializations'[i].defined
                                  THEN specializations'[i].id ELSE 0
               /\ before # {} =>
                    /\ Len(specializations') = Len(specializations)
                    /\ \A i \in before : specializations[i].defined =>
                         /\ ret'.h.kind = "SpecializedTemplateClass"
                         /\ ret'.h.decl = specializations[i].id
    ]_vars

\* C1 witness: the last call returned the first specialization after a
\* second one had been instantiated: it was a repeated call.
C1_Witness ==
  /\ Len(specializations) = 2
  /\ ~aborted
  /\ handle.kind = "TemplateClass"
  /\ specializations[1].defined
  /\ ret.h = CXXType("SpecializedTemplateClass", specializations[1].id)

\* A declaration of the translation unit of this kind and name exists (and
\* is defined).
Declares(kind, name, needDef) ==
  \E i \in 1..Len(tuDecls) :
    /\ tuDecls[i].kind = kind
    /\ tuDecls[i].name = name
    /\ needDef => tuDecls[i].defined

\* The declaration a handle refers to is a declaration of this kind and name.
RefersTo(h, kind, name, needDef) ==
  \E i \in 1..Len(tuDecls) :
    /\ tuDecls[i].id = h.decl
    /\ tuDecls[i].kind = kind
    /\ tuDecls[i].name = name
    /\ needDef => tuDecls[i].defined

C3_LookupStable ==
  [][\A name \in Names : getType(name)' = getType(name)]_vars

\* C3 witness: a lookup returned a class template after a specialization of
\* it and a function were instantiated and the traversal visits them.
C3_Witness ==
  /\ handle.kind = "TemplateClass"
  /\ ret.h = handle
  /\ ~aborted
  /\ traverseInst
  /\ \E i \in 1..Len(specializations) :
       specializations[i].tmpl = handle.decl /\ specializations[i].defined
  /\ FunctionDeclIndexes # {}

\* C6 (as claimed): a size query on a TemplateClass handle fails fatally,
\* and writes no width onto the handle.
C6_TemplateSizeRejected ==
  [][(handle.kind = "TemplateClass" /\ GetTypeSize) =>
       (aborted' /\ handle' = handle)]_vars

\* The parameters createFunctionArgument returned for function func, in
\* call order.
RECURSIVE CreatedFor(_, _)
CreatedFor(log, func) ==
  IF log = <<>> THEN <<>>
  ELSE (IF Head(log).func = func THEN <<Head(log).arg>> ELSE <<>>)
       \o CreatedFor(Tail(log), func)

\* C7 (as claimed): the parameter list of a function holds the parameters
\* created for it, all of them, in call order.
C7_ArgumentsAppended ==
  \A f \in FunctionDeclIndexes :
    tuDecls[f].params = CreatedFor(paramLog, tuDecls[f].id)

IdsOf(ds) == [i \in 1..Len(ds) |-> ds[i].id]

ArithTypes ==
  {IntegerType(16), IntegerType(32), IntegerType(64), FloatType(16),
   FloatType(32), PointerType(IntegerType(32))}
OpNames == {"+", "-"}

InitArith ==
  /\ blockArgTys \in [1..NumOperands -> ArithTypes]
  /\ ops = <<>>
  /\ out = <<>>
  /\ fatal = FALSE
  /\ incr = 0
  /\ globals = <<>>
  /\ autoNames = <<>>
  /\ ModuleIdle
  /\ BridgeIdle

NextArith ==
  \E opName \in OpNames, lhs \in Values, rhs \in Values :
    Len(ops) < MaxArithOps /\ GenerateArithmetic(opName, lhs, rhs)

SpecArith == InitArith /\ [][NextArith /\ UNCHANGED <<bridgeVars, moduleVars, ctorVars>>]_vars

\* A session of loads and stores: a block with arguments of any of the
\* types, then any allocations, address computations, loads and stores.
InitAccess ==
  /\ blockArgTys \in [1..NumOperands -> MemTypes]
  /\ ops = <<>>
  /\ out = <<>>
  /\ fatal = FALSE
  /\ incr = 0
  /\ globals = <<>>
  /\ autoNames = <<>>
  /\ ModuleIdle
  /\ BridgeIdle

NextAccess ==
  \/ \E ty \in {IntegerType(32), StructType} :
       Len(ops) < MaxAccessOps /\ GenerateAlloca(ty)
  \/ \E addr \in Values, offset \in Offsets :
       Len(ops) < MaxAccessOps /\ GenerateGEP(addr, offset)
  \/ \E addr \in Values, offset \in Offsets :
       Len(ops) < MaxAccessOps /\ GenerateLoad(addr, offset)
  \/ \E addr \in Values, val \in Values, offset \in Offsets :
       Len(ops) < MaxAccessOps /\ GenerateStore(addr, val, offset)

SpecAccess == InitAccess /\ [][NextAccess /\ UNCHANGED <<bridgeVars, moduleVars, ctorVars>>]_vars

\* A session of declarations: any prototypes, functions with an entry
\* block, and functions the caller adds to the module.
InitModule == GenIdle /\ BridgeIdle

NextModule ==
  \/ \E name \in FuncNames, types \in Signatures :
       Len(funcs) < MaxFunctions /\ GenerateProto(name, types, IntegerType(32))
  \/ \E name \in FuncNames, types \in Signatures :
       /\ Len(funcs) < MaxFunctions
       /\ \A f \in 1..Len(funcs) : funcs[f].blocks < MaxBlocks
       /\ GenerateEmptyFunction(name, types, IntegerType(32))
  \/ \E f \in 1..Len(funcs) : ModulePushBack(f)

SpecModule == InitModule /\ [][NextModule /\ UNCHANGED <<bridgeVars, ctorVars>>]_vars

\* The life of a bridge: its construction over any header within the
\* bounds, with either compilation succeeding or failing, then any calls.
InitCtor ==
  /\ tuDecls = <<>>
  /\ specializations = <<>>
  /\ nextId = 1
  /\ traverseInst \in BOOLEAN
  /\ handle = InvalidType
  /\ paramLog = <<>>
  /\ ret = NoReturn
  /\ aborted = FALSE
  /\ Unconstructed
  /\ GenIdle

NextCtor ==
  \/ \E ok \in BOOLEAN : GeneratePCH(ok)
  \/ AssembleUnit
  \/ \E ok \in BOOLEAN, choices \in SeqsUpTo(HeaderChoices, MaxCtorDecls) :
       ParseUnit(ok, choices)
  \/ Reattach
  \/ \E name \in Names : Usable /\ GetType(name) /\ UNCHANGED ctorVars
  \/ Usable /\ GetTypeSize /\ UNCHANGED ctorVars
  \/ \E args \in TemplateArgs :
       /\ Usable /\ Within(MaxCtorNodes, Instantiates(args))
       /\ InstantiateClassTemplate(args, FALSE) /\ UNCHANGED ctorVars
  \/ \E name \in Names, args \in ParamTypeLists :
       /\ Usable /\ Within(MaxCtorNodes, TRUE)
       /\ InstantiateFunction(name, args, CXXTypeBuiltin("Int")) /\ UNCHANGED ctorVars
  \/ \E f \in 1..Len(tuDecls) :
       /\ Usable /\ Within(MaxCtorNodes, TRUE)
       /\ CreateFunctionArgument(f) /\ UNCHANGED ctorVars
  \/ Usable /\ Within(MaxCtorNodes, TRUE) /\ CreateIntegerLiteral /\ UNCHANGED ctorVars
  \/ \E f \in 1..Len(tuDecls) :
       /\ Usable /\ Within(MaxCtorNodes, TRUE)
       /\ CreateReturn(f) /\ UNCHANGED ctorVars
  \/ \E ok \in BOOLEAN : emits < MaxEmits /\ EmitLLVM(ok)

SpecCtor == InitCtor /\ [][NextCtor /\ UNCHANGED <<genVars, moduleVars>>]_vars

(***************************************************************************)
(* The claims about the generator.                                         *)
(***************************************************************************)
\* C4 (as claimed): the two values typePromotion returns have the same type.
C4_PromotionEqualTypes ==
  Len(out) = 2 => TypeOf(ops, out[1]) = TypeOf(ops, out[2])

\* C5 (as claimed): a conversion between an integer and a floating type, of
\* any two widths, fails fatally.
C5_MixedConversionFatal ==
  [][\A val \in Values, ty \in ScalarTypes :
       (TypeConversion(val, ty) /\ TypeOf(ops, val).dom # ty.dom) => fatal'
    ]_vars

\* C9: the unnamed constant strings are named from a counter that strictly
\* increases: the k-th unnamed call is named "_string" and then k-1 in
\* decimal, the names of the unnamed calls differ pairwise, and the counter
\* counts the unnamed calls only.
C9_AutoNamesIncrease ==
  /\ incr = Len(autoNames)
  /\ \A k \in 1..Len(autoNames) : autoNames[k] = "_string" \o to_string(k - 1)
  /\ \A j, k \in 1..Len(autoNames) : j # k => autoNames[j] # autoNames[k]
  /\ Len(autoNames) >= 1 => autoNames[1] = "_string0"
  /\ Len(autoNames) >= 11 => autoNames[11] = "_string10"
  /\ \A k \in 1..Len(autoNames) : \E g \in 1..Len(globals) :
       globals[g].name = autoNames[k]

\* C9 witness: eleven unnamed calls and a named call between them.
C9_Witness ==
  /\ Len(autoNames) = 11
  /\ \E g \in 2..(Len(globals) - 1) :
       /\ globals[g].name = "s"
       /\ globals[g - 1].name = "_string0"
       /\ globals[g + 1].name = "_string1"

\* C10: generateAutoLoad returns addr and inserts no operation when addr is
\* no pointer, and when the expected type is a pointer type, whatever the
\* offset.
C10_AutoLoadReturnsAddress ==
  [][\A addr \in Values, ty \in ExpectedTypes, offset \in Offsets :
       (/\ GenerateAutoLoad(addr, ty, offset)
        /\ (TypeOf(ops, addr).dom # "ptr" \/ ty.dom = "ptr"))
       => (out' = <<addr>> /\ ops' = ops /\ ~fatal')
    ]_vars

\* C10 witness: an automatic load returned an address it was given: a
\* pointer-typed block argument, after operations were inserted.
C10_Witness ==
  /\ ~fatal
  /\ ops # <<>>
  /\ Len(out) = 1
  /\ out[1] <= Len(blockArgTys)
  /\ blockArgTys[out[1]].dom = "ptr"

\* C11: generateArithmetic("+", lhs, rhs) on two integer values of
\* different widths sign-extends the narrower operand to the wider type,
\* whichever side it is on, then inserts the addition of the converted and
\* the other operand, in their order, and returns it with the wider type.
C11_AddPromotesNarrower ==
  [][\A lhs \in Values, rhs \in Values :
       LET lt == TypeOf(ops, lhs)
           rt == TypeOf(ops, rhs)
           wide == IF lt.width < rt.width THEN rt ELSE lt
           narrow == IF lt.width < rt.width THEN lhs ELSE rhs
           n == Len(ops)
           conv == Len(blockArgTys) + n + 1
       IN (/\ lt.dom = "int" /\ rt.dom = "int" /\ lt.width # rt.width
           /\ GenerateArithmetic("+", lhs, rhs))
          => /\ ~fatal'
             /\ Len(ops') = n + 2
             /\ SubSeq(ops', 1, n) = ops
             /\ ops'[n + 1].name = "SignExtendIOp"
             /\ ops'[n + 1].ty = wide
             /\ ops'[n + 1].operands = <<narrow>>
             /\ ops'[n + 2].name = "AddIOp"
             /\ ops'[n + 2].ty = wide
             /\ ops'[n + 2].operands =
                  (IF narrow = lhs THEN <<conv, rhs>> ELSE <<lhs, conv>>)
             /\ out' = <<conv + 1>>
    ]_vars

\* C11 witness: an addition of a 64-bit sum and a narrower value on its
\* right: the right operand was extended to 64 bits.
C11_Witness ==
  /\ ~fatal
  /\ Len(ops) >= 2
  /\ ops[Len(ops)].name = "AddIOp"
  /\ ops[Len(ops)].ty = IntegerType(64)
  /\ ops[Len(ops) - 1].name = "SignExtendIOp"
  /\ ops[Len(ops)].operands[2] = Len(blockArgTys) + Len(ops) - 1
  /\ out = <<Len(blockArgTys) + Len(ops)>>

GEPCount(o) == Cardinality({i \in 1..Len(o) : o[i].name = "GEPOp"})

\* C13 (as claimed): generateGEP on the result of a generateGEP, with an
\* offset that is not 0, fails fatally and inserts no second address
\* computation.
C13_GEPRejectsComposition ==
  [][\A addr \in Values, offset \in Offsets :
       (/\ DefiningOp(ops, addr) = "GEPOp"
        /\ offset # 0
        /\ GenerateGEP(addr, offset))
       => (fatal' /\ GEPCount(ops') = GEPCount(ops))
    ]_vars

\* What C15 says of a memory operation memOp on addr and offset: one
\* address computation on addr, used by the operation, when addr is no
\* result of an address computation; addr as it is when it is one and the
\* offset is 0; a fatal failure when it is one and the offset is not 0.
AddressedAsClaimed(addr, offset, memOp) ==
  LET n == Len(ops)
      m == Len(ops')
      last == ops'[m]
      addrOf(op) == op.operands[Len(op.operands)]
  IN IF DefiningOp(ops, addr) # "GEPOp"
     THEN /\ ~fatal'
          /\ m >= n + 2
          /\ SubSeq(ops', 1, n) = ops
          /\ GEPCount(ops') = GEPCount(ops) + 1
          /\ ops'[m - 1].name = "GEPOp"
          /\ ops'[m - 1].operands[1] = addr
          /\ last.name = memOp
          /\ addrOf(last) = Len(blockArgTys) + m - 1
     ELSE IF offset = 0
     THEN /\ ~fatal'
          /\ m = n + 1
          /\ SubSeq(ops', 1, n) = ops
          /\ last.name = memOp
          /\ addrOf(last) = addr
     ELSE fatal' /\ ops' = ops

\* C15 (as claimed): generateLoad and generateStore pick the addressing
\* form from how addr was produced, an address with no defining operation
\* (a block argument) counting as no result of an address computation.
C15_AddressingForm ==
  [][\A addr \in Values, offset \in Offsets :
       (isPointer(ops, addr) \/ DefiningOp(ops, addr) = "GEPOp")
       => /\ GenerateLoad(addr, offset) => AddressedAsClaimed(addr, offset, "LoadOp")
          /\ \A val \in Values :
               GenerateStore(addr, val, offset)
               => AddressedAsClaimed(addr, offset, "StoreOp")
    ]_vars

\* C16 (as claimed): generateEmptyFunction under a name an earlier
\* generateProto or generateEmptyFunction declared returns that function and
\* creates no second one, and after every call that succeeds the insertion
\* point is in a fresh entry block of the function returned.
C16_DeclareOrReuse ==
  [][\A name \in FuncNames, types \in Signatures :
       (GenerateEmptyFunction(name, types, IntegerType(32)) /\ ~fatal')
       => /\ (\E f \in 1..Len(funcs) : funcs[f].name = name)
               => /\ Len(funcs') = Len(funcs)
                  /\ funcOut' \in 1..Len(funcs)
                  /\ funcs[funcOut'].name = name
          /\ funcs'[funcOut'].blocks = 1
          /\ insertionPoint' = [func |-> funcOut', block |-> 1]
    ]_vars

\* C12 (as claimed): when the generation of the precompiled header fails,
\* the construction goes no further: no synthetic unit is built, no session
\* is started and no bridge is handed back.
C12_PCHFailureFatal ==
  pchBuffer = "failed" => (pc = "PCHGenerated" /\ FS = {} /\ consumers = <<>>)

\* C14: whenever the caller holds a bridge constructed without a failure,
\* after any calls, the bridge's AST reference is the root the parse handed
\* over, and the compiler refers to the same root with a consumer attached
\* that was made after the one the parse consumed and has received nothing.
C14_ASTReferenceKept ==
  (pc = "Ready" /\ pchBuffer = "pch" /\ consumers[1] = Ctx)
  => /\ ast = Ctx
     /\ Clang.ast = Ctx
     /\ Clang.consumer = Len(consumers)
     /\ Clang.consumer > 1
     /\ consumers[Clang.consumer] = "nullptr"

\* C14 witness: a constructed bridge that has served a lookup and an
\* instantiation and has emitted a module.
C14_Witness ==
  /\ pc = "Ready"
  /\ pchBuffer = "pch"
  /\ ~aborted
  /\ emits = 1
  /\ handle.kind = "TemplateClass"
  /\ specializations # <<>>
  /\ Clang = Session(Ctx, 2)

====
